---- MODULE Spec2Model ----
(***************************************************************************)
(* photobucket-ai-photo-search: the two Lambda handlers                    *)
(*   backend-services/index_photos/lambda_function.py   (ingestion)        *)
(*   backend-services/search_photos/lambda_function.py  (query)            *)
(* and the "photos" index they share.                                      *)
(*                                                                         *)
(* A string is a tuple of one-character strings, so that lower(), strip()  *)
(* and split(',') are computed character by character.                     *)
(***************************************************************************)
EXTENDS Integers, Sequences, FiniteSets, TLC

VARIABLES
    index,               \* the "photos" index: document id -> stored document
    event,               \* ingestion: the S3 event of each running invocation
    pc,                  \* ingestion: position of each invocation in lambda_handler
    rec,                 \* ingestion: 1-based position of the current record
    custom_labels,       \* ingestion: local custom_labels
    rekognition_labels,  \* ingestion: local rekognition_labels
    photo_doc,           \* ingestion: local photo_doc
    response,            \* ingestion: what lambda_handler returned
    head_response,       \* ingestion (history): what s3.head_object gave for the record
    detect_response,     \* ingestion (history): what rekognition.detect_labels gave
    writes,              \* ingestion (history): the result of each index write issued
    dropped,             \* ingestion (history): the last write replaced a document
                         \* that had a label the written document lacks
    lastIndexed,         \* history: per id, what the last successful ingestion computed
    q_pc,                \* query: position of the request in lambda_handler
    q_event,             \* query: the API Gateway event
    lex_response,        \* query: local lex_response
    keywords,            \* query: local keywords
    photos,              \* query: local photos
    results,             \* query: local results of generate_pre_signed_urls
    q_response,          \* query: what lambda_handler returned
    calls                \* query (history): calls made to Lex, the index and S3

ingestVars == <<event, pc, rec, custom_labels, rekognition_labels, photo_doc,
                response, head_response, detect_response, writes, dropped>>
queryVars == <<q_pc, q_event, lex_response, keywords, photos, results,
               q_response, calls>>
vars == <<index, ingestVars, lastIndexed, queryVars>>

----------------------------------------------------------------------------
(* Bounds of the model *)

MaxBatch == 2      \* records per S3 event
MaxMetaLen == 3    \* characters of a customlabels metadata string (SpecLabels)
MaxNames == 2      \* labels in one Rekognition response (SpecLabels)
MaxSlots == 2      \* slots in one Lex response (SpecQuery)

Buckets == {"b1", "b2"}
Keys == {"k1", "k2"}
\* datetime.now().strftime('%Y-%m-%dT%H:%M:%S'): naive local time
Times == {"2024-01-01T00:00:00", "2024-01-01T00:00:01"}
OneTime == {"2024-01-01T00:00:00"}

----------------------------------------------------------------------------
(* Strings *)

\* one lower-case letter, one upper-case letter, the blank and the comma
Alphabet == {"a", "B", " ", ","}

StringsUpTo(n) == UNION {[1..k -> Alphabet] : k \in 0..n}

\* str.lower() on one character
LowerChar(c) == IF c = "B" THEN "b" ELSE c

\* str.lower()
Lower(s) == [k \in 1..Len(s) |-> LowerChar(s[k])]

IsSpace(c) == c = " "

RECURSIVE LStrip(_)
LStrip(s) == IF s # <<>> /\ IsSpace(Head(s)) THEN LStrip(Tail(s)) ELSE s

RECURSIVE RStrip(_)
RStrip(s) ==
    IF s # <<>> /\ IsSpace(s[Len(s)]) THEN RStrip(SubSeq(s, 1, Len(s) - 1)) ELSE s

\* str.strip()
Strip(s) == RStrip(LStrip(s))

\* the position of the first ',' of s, 0 when there is none
RECURSIVE FirstComma(_, _)
FirstComma(s, k) ==
    IF k > Len(s) THEN 0 ELSE IF s[k] = "," THEN k ELSE FirstComma(s, k + 1)

\* str.split(','): the pieces between commas, empty pieces kept
RECURSIVE Split(_)
Split(s) ==
    LET c == FirstComma(s, 1)
    IN  IF c = 0 THEN <<s>>
        ELSE <<SubSeq(s, 1, c - 1)>> \o Split(SubSeq(s, c + 1, Len(s)))

Range(f) == {f[x] : x \in DOMAIN f}

\* [label for label in xs if label]
RECURSIVE NonEmptyOnly(_)
NonEmptyOnly(xs) ==
    IF xs = <<>> THEN <<>>
    ELSE (IF Head(xs) # <<>> THEN <<Head(xs)>> ELSE <<>>) \o NonEmptyOnly(Tail(xs))

\* the lists a Python list(set(xs)) can be: the distinct elements of xs, each
\* once, in an order the hash seed decides
ListsOfSet(S) ==
    {l \in [1..Cardinality(S) -> S] : Range(l) = S}

----------------------------------------------------------------------------
(* The index_photos handler *)

NoDoc == [none |-> TRUE]
NoResponse == [statusCode |-> 0, body |-> "none"]

\* an event without a 'Records' key, and the events with one
NoRecords == [hasRecords |-> FALSE, Records |-> <<>>]
Records == [bucket : Buckets, key : Keys]
EventsOf(Recs, n) ==
    {[hasRecords |-> TRUE, Records |-> rs] : rs \in UNION {[1..k -> Recs] : k \in 0..n}}
    \cup {NoRecords}
Events == EventsOf(Records, MaxBatch)

\* what s3.head_object can give: an exception, metadata without the
\* 'customlabels' key, or metadata with a customlabels string
HeadFails == [called |-> TRUE, raises |-> TRUE, hasKey |-> FALSE, customlabels |-> <<>>]
NoCustomLabels ==
    [called |-> TRUE, raises |-> FALSE, hasKey |-> FALSE, customlabels |-> <<>>]
MetaOutcomes(Strs) ==
    {HeadFails, NoCustomLabels}
    \cup {[called |-> TRUE, raises |-> FALSE, hasKey |-> TRUE, customlabels |-> s] :
             s \in Strs}

\* what rekognition.detect_labels can give: an exception or the label names
DetectFails == [called |-> TRUE, raises |-> TRUE, Labels |-> <<>>]
VisionOutcomes(Lists) ==
    {DetectFails}
    \cup {[called |-> TRUE, raises |-> FALSE, Labels |-> l] : l \in Lists}

\* before the call of the current record
NotFetched == [called |-> FALSE, raises |-> FALSE, hasKey |-> FALSE, customlabels |-> <<>>]
NotDetected == [called |-> FALSE, raises |-> FALSE, Labels |-> <<>>]

\* a call that returned v, and a call that raised e
Returned(v) == [raised |-> FALSE, value |-> v, error |-> "none"]
Raised(e) == [raised |-> TRUE, value |-> <<>>, error |-> e]

\* the customlabels string split by comma and cleaned up
CleanLabels(custom_labels_str) ==
    LET pieces == Split(custom_labels_str)
        cleaned == [k \in DOMAIN pieces |-> Lower(Strip(pieces[k]))]
    IN  NonEmptyOnly(cleaned)

\* (mutant) get_custom_labels without its try/except
GetCustomLabelsNoCatch(meta) ==
    IF meta.raises THEN Raised("head_object")
    ELSE Returned(IF meta.hasKey THEN CleanLabels(meta.customlabels) ELSE <<>>)

\* get_custom_labels(bucket, key), given what head_object gave
GetCustomLabels(meta) ==
    IF meta.raises THEN Returned(<<>>)
    ELSE LET custom_labels_str == IF meta.hasKey THEN meta.customlabels ELSE <<>>
         IN  IF custom_labels_str # <<>>
             THEN Returned(CleanLabels(custom_labels_str))
             ELSE Returned(<<>>)

\* detect_labels(bucket, key), given what rekognition.detect_labels gave
DetectLabels(vision) ==
    IF vision.raises THEN Returned(<<>>)
    ELSE Returned([k \in DOMAIN vision.Labels |-> Lower(vision.Labels[k])])

\* all_labels = list(set(rekognition_labels + custom_labels))
AllLabels(rek, custom) == ListsOfSet(Range(rek \o custom))

\* photo_doc
PhotoDoc(key, bucket, timestamp, labels) ==
    [objectKey |-> key, bucket |-> bucket,
     createdTimestamp |-> timestamp, labels |-> labels]

\* what elastic_client.index can do: apply the write and report 'created' or
\* 'updated', raise, or report another result without applying the write
IndexOutcomes == {"applied", "raises", "noop"}

\* (mutant) an upsert that merges the labels of the stored document
IndexMerged(idx, doc_id, document) ==
    [idx EXCEPT ![doc_id] =
        IF @ = NoDoc THEN document
        ELSE [document EXCEPT !.labels =
                 @ \o SelectSeq(idx[doc_id].labels,
                                LAMBDA l : l \notin Range(document.labels))]]

\* (mutant) a write without refresh=True: accepted, not yet visible to a search
IndexUnrefreshed(idx, doc_id, document) == idx

\* elastic_client.index(index=INDEX_NAME, id=doc_id, body=document, refresh=True)
\* when it is applied: the body becomes the document stored under the id
IndexApplied(idx, doc_id, document) == [idx EXCEPT ![doc_id] = document]

IndexResult(outcome, doc_id) ==
    IF outcome = "applied"
    THEN (IF index[doc_id] = NoDoc THEN "created" ELSE "updated")
    ELSE outcome

\* (mutant) index_to_elasticsearch logs the failure and does not re-raise
IndexToElasticsearchSwallowed(result) == Returned(<<>>)

\* index_to_elasticsearch(document, doc_id) given the client's result: it raises
\* when the client raised or the result is neither 'created' nor 'updated'
IndexToElasticsearch(result) ==
    IF result \notin {"created", "updated"} THEN Raised(result) ELSE Returned(<<>>)

Ok200 == [statusCode |-> 200, body |-> "Successfully processed and indexed photos"]
Err500(e) == [statusCode |-> 500, body |-> e]

\* except Exception as e: every exception raised in the try block is caught
Catches(e) == TRUE

\* the locals of a frame of lambda_handler before its first record
FreshFrame(inv) ==
    /\ rec' = [rec EXCEPT ![inv] = 1]
    /\ custom_labels' = [custom_labels EXCEPT ![inv] = <<>>]
    /\ rekognition_labels' = [rekognition_labels EXCEPT ![inv] = <<>>]
    /\ photo_doc' = [photo_doc EXCEPT ![inv] = NoDoc]
    /\ head_response' = [head_response EXCEPT ![inv] = NotFetched]
    /\ detect_response' = [detect_response EXCEPT ![inv] = NotDetected]
    /\ dropped' = [dropped EXCEPT ![inv] = FALSE]

\* lambda_handler returns r: its frame is gone
Return(inv, r) ==
    /\ pc' = [pc EXCEPT ![inv] = "done"]
    /\ response' = [response EXCEPT ![inv] = r]
    /\ FreshFrame(inv)

\* an exception e leaves the try block: the except clause returns 500
Except(inv, e) ==
    IF Catches(e)
    THEN Return(inv, Err500(e))
    ELSE /\ pc' = [pc EXCEPT ![inv] = "raised"]
         /\ response' = response
         /\ FreshFrame(inv)

\* lambda_handler is invoked with an event
Invoke(inv, Evs) ==
    /\ pc[inv] \in {"idle", "done"}
    /\ \E e \in Evs : event' = [event EXCEPT ![inv] = e]
    /\ pc' = [pc EXCEPT ![inv] = "for"]
    /\ response' = [response EXCEPT ![inv] = NoResponse]
    /\ writes' = [writes EXCEPT ![inv] = <<>>]
    /\ FreshFrame(inv)
    /\ UNCHANGED <<index, lastIndexed, queryVars>>

\* event['Records'] raises KeyError inside the try block
MissingRecords(inv) ==
    /\ pc[inv] = "for"
    /\ ~event[inv].hasRecords
    /\ Except(inv, "'Records'")
    /\ UNCHANGED <<index, lastIndexed, event, writes, queryVars>>

\* (mutant) the document of the next record is written before it is labelled
ForRecordWritesFirst(inv) ==
    /\ pc[inv] = "for"
    /\ event[inv].hasRecords
    /\ rec[inv] <= Len(event[inv].Records)
    /\ pc' = [pc EXCEPT ![inv] = "index"]
    /\ UNCHANGED <<index, lastIndexed, event, rec, custom_labels,
                   rekognition_labels, photo_doc, response, head_response,
                   detect_response, writes, dropped, queryVars>>

\* for record in event['Records']: the next record is taken up
ForRecord(inv) ==
    /\ pc[inv] = "for"
    /\ event[inv].hasRecords
    /\ rec[inv] <= Len(event[inv].Records)
    /\ pc' = [pc EXCEPT ![inv] = "get_custom_labels"]
    /\ UNCHANGED <<index, lastIndexed, event, rec, custom_labels,
                   rekognition_labels, photo_doc, response, head_response,
                   detect_response, writes, dropped, queryVars>>

\* the loop is over: return statusCode 200
Return200(inv) ==
    /\ pc[inv] = "for"
    /\ event[inv].hasRecords
    /\ rec[inv] > Len(event[inv].Records)
    /\ Return(inv, Ok200)
    /\ UNCHANGED <<index, lastIndexed, event, writes, queryVars>>

\* custom_labels = get_custom_labels(bucket, key)
CustomLabelsStep(inv, Strs) ==
    /\ pc[inv] = "get_custom_labels"
    /\ \E meta \in MetaOutcomes(Strs) :
        LET r == GetCustomLabels(meta)
        IN  IF r.raised
            THEN Except(inv, r.error)
            ELSE /\ head_response' = [head_response EXCEPT ![inv] = meta]
                 /\ custom_labels' = [custom_labels EXCEPT ![inv] = r.value]
                 /\ pc' = [pc EXCEPT ![inv] = "detect_labels"]
                 /\ UNCHANGED <<rec, rekognition_labels, photo_doc, response,
                                detect_response, dropped>>
    /\ UNCHANGED <<index, lastIndexed, event, writes, queryVars>>

\* rekognition_labels = detect_labels(bucket, key)
DetectLabelsStep(inv, Lists) ==
    /\ pc[inv] = "detect_labels"
    /\ \E vision \in VisionOutcomes(Lists) :
        LET r == DetectLabels(vision)
        IN  IF r.raised
            THEN Except(inv, r.error)
            ELSE /\ detect_response' = [detect_response EXCEPT ![inv] = vision]
                 /\ rekognition_labels' = [rekognition_labels EXCEPT ![inv] = r.value]
                 /\ pc' = [pc EXCEPT ![inv] = "index"]
                 /\ UNCHANGED <<rec, custom_labels, photo_doc, response,
                                head_response, dropped>>
    /\ UNCHANGED <<index, lastIndexed, event, writes, queryVars>>

\* the document is built and index_to_elasticsearch(photo_doc, key) is called
IndexStep(inv, Ts) ==
    /\ pc[inv] = "index"
    /\ LET record == event[inv].Records[rec[inv]]
           key == record.key
           bucket == record.bucket
       IN  \E all_labels \in AllLabels(rekognition_labels[inv], custom_labels[inv]),
              timestamp \in Ts, outcome \in IndexOutcomes :
             LET doc == PhotoDoc(key, bucket, timestamp, all_labels)
                 result == IndexResult(outcome, key)
                 r == IndexToElasticsearch(result)
             IN  /\ index' = IF outcome = "applied"
                             THEN IndexApplied(index, key, doc)
                             ELSE index
                 /\ lastIndexed' =
                        IF outcome = "applied"
                        THEN [lastIndexed EXCEPT ![key] =
                                 [bucket |-> bucket,
                                  labels |-> Range(rekognition_labels[inv])
                                                 \cup Range(custom_labels[inv])]]
                        ELSE lastIndexed
                 /\ writes' = [writes EXCEPT ![inv] = Append(@, result)]
                 /\ IF r.raised
                    THEN Except(inv, r.error)
                    ELSE /\ pc' = [pc EXCEPT ![inv] = "for"]
                         /\ rec' = [rec EXCEPT ![inv] = @ + 1]
                         /\ photo_doc' = [photo_doc EXCEPT ![inv] = doc]
                         /\ dropped' = [dropped EXCEPT ![inv] =
                                /\ index[key] # NoDoc
                                /\ Range(index[key].labels) \ Range(all_labels) # {}]
                         /\ UNCHANGED <<custom_labels, rekognition_labels, response,
                                        head_response, detect_response>>
    /\ UNCHANGED <<event, queryVars>>

----------------------------------------------------------------------------
(* The search_photos handler *)

\* the API Gateway event: 'queryStringParameters' absent or null, without 'q',
\* or with q, an empty or a non-empty text
NoQueryStringParameters == [hasParams |-> FALSE, hasQ |-> FALSE, q |-> ""]
QueryEvents ==
    {NoQueryStringParameters,
     [hasParams |-> TRUE, hasQ |-> FALSE, q |-> ""],
     [hasParams |-> TRUE, hasQ |-> TRUE, q |-> ""],
     [hasParams |-> TRUE, hasQ |-> TRUE, q |-> "show me photos"]}

\* (mutant) a default text when the request carries none
QueryOrDefault(ev) == IF ev.hasParams /\ ev.hasQ /\ ev.q # "" THEN ev.q ELSE "*"

\* query = event['queryStringParameters'].get('q', '') when the parameters are
\* there, None otherwise; "" stands for both falsy values
Query(ev) == IF ev.hasParams /\ ev.hasQ THEN ev.q ELSE ""

\* one entry of the slots mapping of a Lex response: null, without a value,
\* with a value that has no originalValue, or with a value and its originalValue
NullSlot == [isNull |-> TRUE, hasValue |-> FALSE, hasOriginal |-> FALSE,
             originalValue |-> <<>>]
EmptySlot == [isNull |-> FALSE, hasValue |-> FALSE, hasOriginal |-> FALSE,
              originalValue |-> <<>>]
InterpretedOnlySlot == [isNull |-> FALSE, hasValue |-> TRUE, hasOriginal |-> FALSE,
                        originalValue |-> <<>>]
ValueSlot(text) == [isNull |-> FALSE, hasValue |-> TRUE, hasOriginal |-> TRUE,
                    originalValue |-> text]

\* the words a user can type for a slot
KeywordTexts == {<<"a">>, <<"B">>}
Slots == {NullSlot, EmptySlot, InterpretedOnlySlot} \cup {ValueSlot(t) : t \in KeywordTexts}

\* what lex_client.recognize_text can give: an exception, or a response whose
\* sessionState, intent or slots may be missing
NoLexResponse == [raises |-> FALSE, shape |-> "none", slots |-> <<>>]
LexResponses ==
    {[raises |-> TRUE, shape |-> "none", slots |-> <<>>]}
    \cup {[raises |-> FALSE, shape |-> sh, slots |-> <<>>] :
             sh \in {"no-sessionState", "no-intent", "no-slots"}}
    \cup {[raises |-> FALSE, shape |-> "slots", slots |-> sl] :
             sl \in UNION {[1..n -> Slots] : n \in 0..MaxSlots}}

\* lex_response.get('sessionState', {}).get('intent', {}).get('slots', {})
SlotsOf(lex) == IF lex.shape = "slots" THEN lex.slots ELSE <<>>

\* for slot_name, slot_data in slots.items(): the keywords appended, in the
\* order of the slots; slot_data['value']['originalValue'] raises KeyError
RECURSIVE KeywordsFrom(_, _)
KeywordsFrom(slots, kws) ==
    IF slots = <<>> THEN Returned(kws)
    ELSE LET slot_data == Head(slots)
         IN  IF ~slot_data.isNull /\ slot_data.hasValue
             THEN IF slot_data.hasOriginal
                  THEN KeywordsFrom(Tail(slots), Append(kws, slot_data.originalValue))
                  ELSE Raised("'originalValue'")
             ELSE KeywordsFrom(Tail(slots), kws)

\* (mutant) every slot that is not null gives a keyword
ExtractKeywordsNoSkip(lex) ==
    Returned([k \in DOMAIN SelectSeq(SlotsOf(lex), LAMBDA sd : ~sd.isNull) |->
                 SelectSeq(SlotsOf(lex), LAMBDA sd : ~sd.isNull)[k].originalValue])

\* (mutant) the keywords with every repeated value dropped
RECURSIVE WithoutRepeats(_, _)
WithoutRepeats(xs, seen) ==
    IF xs = <<>> THEN seen
    ELSE WithoutRepeats(Tail(xs),
                        IF Head(xs) \in Range(seen) THEN seen ELSE Append(seen, Head(xs)))
ExtractKeywordsDeduplicated(lex) ==
    LET r == KeywordsFrom(SlotsOf(lex), <<>>)
    IN  IF r.raised THEN r ELSE Returned(WithoutRepeats(r.value, <<>>))

\* keywords = [] ... if slots: for ...
ExtractKeywords(lex) ==
    LET slots == SlotsOf(lex)
    IN  IF slots # <<>> THEN KeywordsFrom(slots, <<>>) ELSE Returned(<<>>)

\* The clause {"match": {"labels": keyword}} is decided by the mapping of the
\* labels field, which nothing in the repository sets. Mapped as text (what
\* the index does with a field first seen in a write), the keyword and each
\* label are analysed into lower-cased words and the clause matches a document
\* when one of its labels has a word of the keyword; mapped as keyword, the
\* clause matches when one of its labels is the keyword itself.
LabelsMappings == {"text", "keyword"}

IsWordChar(c) == c \in {"a", "B", "b"}

RECURSIVE WordsFrom(_, _)
WordsFrom(s, word) ==
    IF s = <<>> THEN (IF word = <<>> THEN {} ELSE {word})
    ELSE IF IsWordChar(Head(s))
         THEN WordsFrom(Tail(s), Append(word, LowerChar(Head(s))))
         ELSE (IF word = <<>> THEN {} ELSE {word}) \cup WordsFrom(Tail(s), <<>>)

Words(s) == WordsFrom(s, <<>>)

MatchClause(doc, keyword, mapping) ==
    \E i \in DOMAIN doc.labels :
        IF mapping = "text"
        THEN Words(doc.labels[i]) \cap Words(keyword) # {}
        ELSE doc.labels[i] = keyword

\* "minimum_should_match": 1, and "size": 100
MinimumShouldMatch == 1
Size == 100

\* (mutant) every clause has to match
BoolMust(doc, kws, mapping) == \A i \in DOMAIN kws : MatchClause(doc, kws[i], mapping)

\* the bool query: at least minimum_should_match of the should clauses match
BoolShould(doc, kws, mapping) ==
    Cardinality({i \in DOMAIN kws : MatchClause(doc, kws[i], mapping)})
        >= MinimumShouldMatch

Min(a, b) == IF a < b THEN a ELSE b

\* the hits elastic_client.search can return: the matching documents, at most
\* size of them, in the order the index ranks them (not fixed by the query)
SearchHits(idx, kws, mapping) ==
    LET matching == {idx[id] : id \in {i \in DOMAIN idx :
                                          idx[i] # NoDoc
                                          /\ BoolShould(idx[i], kws, mapping)}}
        n == Min(Cardinality(matching), Size)
    IN  {h \in [1..n -> matching] : \A i, j \in 1..n : i # j => h[i] # h[j]}

\* (mutant) search_elasticsearch without its try/except
SearchElasticsearchNoCatch(raises, hits) ==
    IF raises THEN Raised("search") ELSE Returned(hits)

\* search_elasticsearch(keywords) given what elastic_client.search did: the
\* '_source' of every hit, or [] when the client raised
SearchElasticsearch(raises, hits) == IF raises THEN Returned(<<>>) ELSE Returned(hits)

\* s3_client.generate_presigned_url('get_object', Params, ExpiresIn=3600)
ExpiresIn == 3600
PresignedUrl(bucket, key) == [Bucket |-> bucket, Key |-> key, ExpiresIn |-> ExpiresIn]

\* (mutant) a photo whose link cannot be generated gets an empty url
PreSignedEntryOrBlank(photo, raises) ==
    Returned([url |-> IF raises THEN PresignedUrl("", "")
                      ELSE PresignedUrl(photo.bucket, photo.objectKey),
              labels |-> photo.labels])

\* (mutant) every entry carries the labels of the first photo
PreSignedEntryFirstLabels(photo, raises) ==
    IF raises THEN Raised("Error generating pre-signed URL")
    ELSE Returned([url |-> PresignedUrl(photo.bucket, photo.objectKey),
                   labels |-> photos[1].labels])

\* one turn of the loop of generate_pre_signed_urls: the entry appended, or the
\* exception raised when generate_presigned_url raised
PreSignedEntry(photo, raises) ==
    IF raises THEN Raised("Error generating pre-signed URL")
    ELSE Returned([url |-> PresignedUrl(photo.bucket, photo.objectKey),
                   labels |-> photo.labels])

CorsHeaders ==
    [AllowOrigin |-> "*", AllowHeaders |-> "Content-Type", AllowMethods |-> "OPTIONS,GET"]

\* response_handler(status_code, response_payload)
ResponseHandler(status_code, response_payload) ==
    [statusCode |-> status_code, headers |-> CorsHeaders, body |-> response_payload]

NoQueryResponse == ResponseHandler(0, [results |-> <<>>])
\* the calls made so far, and the call that raised
NoCalls == [lex |-> 0, search |-> 0, presign |-> 0, raised |-> "none"]

\* (mutant) an except clause for the exceptions of the clients only
QueryCatchesClientErrors(e) == e # "'originalValue'"

\* except Exception as e: every exception raised in the try block is caught
QueryCatches(e) == TRUE

\* return response_handler(...)
Respond(r) ==
    /\ q_pc' = "responded"
    /\ q_response' = r

\* an exception e leaves the try block: the except clause responds 500
QueryExcept(e) ==
    IF QueryCatches(e)
    THEN Respond(ResponseHandler(500, [error |-> e, results |-> <<>>]))
    ELSE /\ q_pc' = "raised"
         /\ q_response' = q_response

\* lambda_handler is invoked with an event
Request(Evs) ==
    /\ q_pc \in {"idle", "responded"}
    /\ \E ev \in Evs : q_event' = ev
    /\ q_pc' = "received"
    /\ lex_response' = NoLexResponse
    /\ keywords' = <<>>
    /\ photos' = <<>>
    /\ results' = <<>>
    /\ q_response' = NoQueryResponse
    /\ calls' = NoCalls
    /\ UNCHANGED <<index, lastIndexed, ingestVars>>

\* if not query: return response_handler(400, {'results': []})
Validate ==
    /\ q_pc = "received"
    /\ IF Query(q_event) = ""
       THEN Respond(ResponseHandler(400, [results |-> <<>>]))
       ELSE q_pc' = "validated" /\ q_response' = q_response
    /\ UNCHANGED <<index, lastIndexed, ingestVars, q_event, lex_response, keywords,
                   photos, results, calls>>

\* lex_response = lex_client.recognize_text(..., text=query)
RecognizeText ==
    /\ q_pc = "validated"
    /\ \E lex \in LexResponses :
        /\ calls' = [calls EXCEPT !.lex = @ + 1,
                                  !.raised = IF lex.raises THEN "lex" ELSE @]
        /\ IF lex.raises
           THEN QueryExcept("recognize_text") /\ lex_response' = lex_response
           ELSE /\ lex_response' = lex
                /\ q_pc' = "disambiguated"
                /\ q_response' = q_response
    /\ UNCHANGED <<index, lastIndexed, ingestVars, q_event, keywords, photos, results>>

\* the keywords are extracted; if not keywords: return 200 with no results
Keywords ==
    /\ q_pc = "disambiguated"
    /\ LET r == ExtractKeywords(lex_response)
       IN  IF r.raised
           THEN QueryExcept(r.error) /\ keywords' = keywords
           ELSE /\ keywords' = r.value
                /\ IF r.value = <<>>
                   THEN Respond(ResponseHandler(200, [results |-> <<>>]))
                   ELSE q_pc' = "keywords" /\ q_response' = q_response
    /\ UNCHANGED <<index, lastIndexed, ingestVars, q_event, lex_response, photos,
                   results, calls>>

\* photos = search_elasticsearch(keywords); if not photos: return 200 with no results
Search ==
    /\ q_pc = "keywords"
    /\ \E raises \in BOOLEAN, mapping \in LabelsMappings :
        \E hits \in (IF raises THEN {<<>>} ELSE SearchHits(index, keywords, mapping)) :
          LET r == SearchElasticsearch(raises, hits)
          IN  /\ calls' = [calls EXCEPT !.search = @ + 1,
                                        !.raised = IF raises THEN "search" ELSE @]
              /\ IF r.raised
                 THEN QueryExcept(r.error) /\ photos' = photos
                 ELSE /\ photos' = r.value
                      /\ IF r.value = <<>>
                         THEN Respond(ResponseHandler(200, [results |-> <<>>]))
                         ELSE q_pc' = "searched" /\ q_response' = q_response
    /\ UNCHANGED <<index, lastIndexed, ingestVars, q_event, lex_response, keywords,
                   results>>

\* generate_pre_signed_urls(photos): one turn of for photo in photos
PreSign ==
    /\ q_pc = "searched"
    /\ Len(results) < Len(photos)
    /\ \E raises \in BOOLEAN :
        LET r == PreSignedEntry(photos[Len(results) + 1], raises)
        IN  /\ calls' = [calls EXCEPT !.presign = @ + 1,
                                      !.raised = IF raises THEN "presign" ELSE @]
            /\ IF r.raised
               THEN QueryExcept(r.error) /\ results' = results
               ELSE /\ results' = Append(results, r.value)
                    /\ q_pc' = q_pc
                    /\ q_response' = q_response
    /\ UNCHANGED <<index, lastIndexed, ingestVars, q_event, lex_response, keywords,
                   photos>>

\* return response_handler(200, {'results': pressigned_urls})
RespondResults ==
    /\ q_pc = "searched"
    /\ Len(results) = Len(photos)
    /\ Respond(ResponseHandler(200, [results |-> results]))
    /\ UNCHANGED <<index, lastIndexed, ingestVars, q_event, lex_response, keywords,
                   photos, results, calls>>

\* search_elasticsearch(keywords) called on its own, outside lambda_handler:
\* the clauses are built from whatever list is given and elastic_client.search
\* is called with them
SearchElasticsearchCall(Kws) ==
    /\ q_pc = "idle"
    /\ \E kws \in Kws, raises \in BOOLEAN, mapping \in LabelsMappings :
        \E hits \in (IF raises THEN {<<>>} ELSE SearchHits(index, kws, mapping)) :
          /\ keywords' = kws
          /\ calls' = [calls EXCEPT !.search = @ + 1,
                                    !.raised = IF raises THEN "search" ELSE @]
          /\ photos' = SearchElasticsearch(raises, hits).value
          /\ q_pc' = "search_returned"
    /\ UNCHANGED <<index, lastIndexed, ingestVars, q_event, lex_response, results,
                   q_response>>

----------------------------------------------------------------------------
(* Specifications *)

\* the inputs of the handler-level specification
MetaStrs == {<<"a">>, <<" ", "B">>}
VisionLists == {<<>>, << <<"a">> >>}

InitFor(I) ==
    /\ index = [k \in Keys |-> NoDoc]
    /\ lastIndexed = [k \in Keys |-> NoDoc]
    /\ event = [i \in I |-> [hasRecords |-> TRUE, Records |-> <<>>]]
    /\ pc = [i \in I |-> "idle"]
    /\ rec = [i \in I |-> 1]
    /\ custom_labels = [i \in I |-> <<>>]
    /\ rekognition_labels = [i \in I |-> <<>>]
    /\ photo_doc = [i \in I |-> NoDoc]
    /\ response = [i \in I |-> NoResponse]
    /\ head_response = [i \in I |-> NotFetched]
    /\ detect_response = [i \in I |-> NotDetected]
    /\ writes = [i \in I |-> <<>>]
    /\ dropped = [i \in I |-> FALSE]

\* no query request yet
QueryIdle ==
    /\ q_pc = "idle"
    /\ q_event = NoQueryStringParameters
    /\ lex_response = NoLexResponse
    /\ keywords = <<>>
    /\ photos = <<>>
    /\ results = <<>>
    /\ q_response = NoQueryResponse
    /\ calls = NoCalls

Init == InitFor({1}) /\ QueryIdle

Next ==
    \E inv \in DOMAIN pc :
        \/ Invoke(inv, Events)
        \/ MissingRecords(inv)
        \/ ForRecord(inv)
        \/ Return200(inv)
        \/ CustomLabelsStep(inv, MetaStrs)
        \/ DetectLabelsStep(inv, VisionLists)
        \/ IndexStep(inv, OneTime)

Spec == Init /\ [][Next]_vars

\* The label computation on every metadata string and every Rekognition
\* response within the bounds: one object, ingested into the empty index.
OneRecord == {[bucket |-> "b1", key |-> "k1"]}
LabelNames == StringsUpTo(1)
NameLists == UNION {[1..n -> LabelNames] : n \in 0..MaxNames}

NextLabels ==
    \E inv \in DOMAIN pc :
        \/ (\A k \in Keys : index[k] = NoDoc) /\ Invoke(inv, EventsOf(OneRecord, 1))
        \/ MissingRecords(inv)
        \/ ForRecord(inv)
        \/ Return200(inv)
        \/ CustomLabelsStep(inv, StringsUpTo(MaxMetaLen))
        \/ DetectLabelsStep(inv, NameLists)
        \/ IndexStep(inv, Times)

SpecLabels == Init /\ [][NextLabels]_vars

\* The query handler, on every content of the index within the bounds: each
\* of three objects is absent or stored with one of the label lists below.
QueryKeys == {"k1", "k2", "k3"}
BucketOf(k) == IF k = "k2" THEN "b2" ELSE "b1"
StoredLabels == {<<<<"a">>>>, <<<<"a">>, <<"b">>>>, <<<<"a", " ", "b">>>>, <<<<",">>>>}
StoredDocs(k) ==
    {NoDoc} \cup {PhotoDoc(k, BucketOf(k), t, ls) : t \in OneTime, ls \in StoredLabels}

InitQuery ==
    /\ index \in {f \in [QueryKeys -> UNION {StoredDocs(k) : k \in QueryKeys}] :
                     \A k \in QueryKeys : f[k] \in StoredDocs(k)}
    /\ lastIndexed = [k \in QueryKeys |-> NoDoc]
    /\ event = <<>>
    /\ pc = <<>>
    /\ rec = <<>>
    /\ custom_labels = <<>>
    /\ rekognition_labels = <<>>
    /\ photo_doc = <<>>
    /\ response = <<>>
    /\ head_response = <<>>
    /\ detect_response = <<>>
    /\ writes = <<>>
    /\ dropped = <<>>
    /\ QueryIdle

NextQuery ==
    \/ Request(QueryEvents)
    \/ Validate
    \/ RecognizeText
    \/ Keywords
    \/ Search
    \/ PreSign
    \/ RespondResults

SpecQuery == InitQuery /\ [][NextQuery]_vars

\* The two handlers on the same index: one ingestion invocation, for batches
\* that name one object, and one query request at a time, their steps
\* interleaved in every way.
VisibleMeta == {<<"B">>}
VisibleVision == {<< <<"a">> >>}
VisibleQueries == {[hasParams |-> TRUE, hasQ |-> TRUE, q |-> "show me photos"]}

NextVisible ==
    \/ \E inv \in DOMAIN pc :
        \/ Invoke(inv, EventsOf(OneRecord, MaxBatch))
        \/ MissingRecords(inv)
        \/ ForRecord(inv)
        \/ Return200(inv)
        \/ CustomLabelsStep(inv, VisibleMeta)
        \/ DetectLabelsStep(inv, VisibleVision)
        \/ IndexStep(inv, OneTime)
    \/ Request(VisibleQueries)
    \/ Validate
    \/ RecognizeText
    \/ Keywords
    \/ Search
    \/ PreSign
    \/ RespondResults

SpecVisible == Init /\ [][NextVisible]_vars

\* Two invocations of the ingestion handler at once, each with a batch of one
\* record, their steps interleaved in every way.
Invocations == {1, 2}
InitConcurrent == InitFor(Invocations) /\ QueryIdle

NextConcurrent ==
    \E inv \in DOMAIN pc :
        \/ Invoke(inv, EventsOf(Records, 1))
        \/ MissingRecords(inv)
        \/ ForRecord(inv)
        \/ Return200(inv)
        \/ CustomLabelsStep(inv, VisibleMeta)
        \/ DetectLabelsStep(inv, VisibleVision)
        \/ IndexStep(inv, OneTime)

SpecConcurrent == InitConcurrent /\ [][NextConcurrent]_vars

\* Batches whose records may name no bucket: record['s3']['bucket']['name']
\* is taken as it comes, the empty string included.
RecordsOrEmpty == [bucket : {"", "b1"}, key : {"k1"}]

NextOrEmpty ==
    \E inv \in DOMAIN pc :
        \/ Invoke(inv, EventsOf(RecordsOrEmpty, MaxBatch))
        \/ MissingRecords(inv)
        \/ ForRecord(inv)
        \/ Return200(inv)
        \/ CustomLabelsStep(inv, VisibleMeta)
        \/ DetectLabelsStep(inv, VisibleVision)
        \/ IndexStep(inv, OneTime)

SpecOrEmpty == Init /\ [][NextOrEmpty]_vars

\* search_elasticsearch on every keyword list within the bounds, the empty
\* list included, and every content of the index
KeywordLists == UNION {[1..n -> KeywordTexts] : n \in 0..MaxSlots}

NextSearchCall == SearchElasticsearchCall(KeywordLists)

SpecSearchCall == InitQuery /\ [][NextSearchCall]_vars


----------------------------------------------------------------------------
(* Claims about the ingestion handler *)

WriteOk(result) == result \in {"created", "updated"}

\* the handler has returned after an event that had records
Finished(inv) == pc[inv] = "done" /\ event[inv].hasRecords

\* C1: when the index write of a record fails, the records after it in the
\* batch are still processed: once the handler has returned, an index write
\* has been issued for every record of the batch.
C1_EveryRecordProcessed ==
    \A inv \in DOMAIN pc :
        Finished(inv) => Len(writes[inv]) = Len(event[inv].Records)

\* the labels of the calls that succeeded
LabelsOfMetadata(h) ==
    IF h.raises \/ ~h.hasKey THEN {}
    ELSE {Lower(Strip(p)) : p \in Range(Split(h.customlabels))} \ {<<>>}
LabelsOfVision(d) ==
    IF d.raises THEN {} ELSE {Lower(d.Labels[k]) : k \in DOMAIN d.Labels}

\* C2: a failure of the metadata fetch and a failure of the vision call each
\* degrade to an empty label list: no record is skipped before its write, the
\* document written carries exactly the labels of the calls that succeeded,
\* and a 500 response is always due to a failed index write or an event
\* without records, never to one of the two calls.
C2_LabelCallsDegrade ==
    \A inv \in DOMAIN pc :
        /\ pc[inv] \in {"for", "get_custom_labels", "detect_labels", "index"}
              => Len(writes[inv]) = rec[inv] - 1
        /\ (pc[inv] = "for" /\ photo_doc[inv] # NoDoc)
              => /\ index[photo_doc[inv].objectKey] = photo_doc[inv]
                 /\ Range(photo_doc[inv].labels) =
                        LabelsOfMetadata(head_response[inv])
                            \cup LabelsOfVision(detect_response[inv])
        /\ response[inv].statusCode = 500
              => \/ ~event[inv].hasRecords
                 \/ /\ writes[inv] # <<>>
                    /\ ~WriteOk(writes[inv][Len(writes[inv])])

\* C2 witness: both calls failed and the document was written with no labels
C2_Witness ==
    \E inv \in DOMAIN pc :
        /\ pc[inv] = "for"
        /\ head_response[inv].raises
        /\ detect_response[inv].raises
        /\ photo_doc[inv] # NoDoc
        /\ photo_doc[inv].labels = <<>>
        /\ index[photo_doc[inv].objectKey] = photo_doc[inv]
        /\ WriteOk(writes[inv][Len(writes[inv])])

\* C3: a 200 response means every record's index write reported 'created' or
\* 'updated'; a write that raised or reported anything else ends the handler
\* with a 500 response; the handler returns a response and never raises.
C3_BatchStatus ==
    \A inv \in DOMAIN pc :
        /\ pc[inv] # "raised"
        /\ pc[inv] = "done" => response[inv].statusCode \in {200, 500}
        /\ response[inv].statusCode = 200
              => /\ event[inv].hasRecords
                 /\ Len(writes[inv]) = Len(event[inv].Records)
                 /\ \A k \in DOMAIN writes[inv] : WriteOk(writes[inv][k])
        /\ (\E k \in DOMAIN writes[inv] : ~WriteOk(writes[inv][k]))
              => pc[inv] = "done" /\ response[inv].statusCode = 500

\* C3 witness: the second write of a batch reported another result: 500
C3_Witness ==
    \E inv \in DOMAIN pc :
        /\ pc[inv] = "done"
        /\ Len(event[inv].Records) = 2
        /\ writes[inv] = <<"created", "noop">>
        /\ response[inv].statusCode = 500

\* C4: the index holds at most one document per objectKey (the document id is
\* its objectKey), and its bucket and labels are exactly those the most recent
\* successful ingestion of the key computed: nothing of an earlier document
\* of the key is kept.
C4_OverwriteNotMerge ==
    \A k \in Keys :
        /\ (index[k] = NoDoc) <=> (lastIndexed[k] = NoDoc)
        /\ index[k] # NoDoc
              => /\ index[k].objectKey = k
                 /\ index[k].bucket = lastIndexed[k].bucket
                 /\ Range(index[k].labels) = lastIndexed[k].labels

\* C4 witness: a key is ingested again, with another bucket and without a label
\* its stored document had
C4_Witness ==
    \E inv \in DOMAIN pc :
        /\ pc[inv] = "for"
        /\ rec[inv] = 3
        /\ writes[inv] = <<"created", "updated">>
        /\ event[inv].Records[1].key = event[inv].Records[2].key
        /\ event[inv].Records[1].bucket # event[inv].Records[2].bucket
        /\ dropped[inv]
        /\ index[photo_doc[inv].objectKey] = photo_doc[inv]

\* the invocation is inside the loop over the records of its batch
InLoop(inv) == pc[inv] \in {"for", "get_custom_labels", "detect_labels", "index"}

\* records are taken up in the order of the batch, and for each record the
\* metadata fetch comes first, then the vision call, then the index write
RecordSteps(inv) ==
    /\ pc'[inv] = "get_custom_labels" => pc[inv] \in {"for", "get_custom_labels"}
    /\ pc'[inv] = "detect_labels"
          => \/ pc[inv] = "detect_labels"
             \/ pc[inv] = "get_custom_labels" /\ head_response'[inv].called
    /\ pc'[inv] = "index"
          => \/ pc[inv] = "index"
             \/ pc[inv] = "detect_labels" /\ head_response[inv].called
                   /\ detect_response'[inv].called
    /\ (InLoop(inv) /\ InLoop(inv)' /\ rec'[inv] # rec[inv])
          => pc[inv] = "index" /\ pc'[inv] = "for" /\ rec'[inv] = rec[inv] + 1
    /\ (InLoop(inv) /\ writes'[inv] # writes[inv])
          => /\ pc[inv] = "index"
             /\ Len(writes[inv]) = rec[inv] - 1
             /\ Len(writes'[inv]) = rec[inv]
             /\ SubSeq(writes'[inv], 1, rec[inv] - 1) = writes[inv]

\* while a record is handled, one write has been issued for each earlier
\* record and has succeeded, and none for the record itself
EarlierRecordsFinished(inv) ==
    InLoop(inv)
        => /\ Len(writes[inv]) = rec[inv] - 1
           /\ \A i \in DOMAIN writes[inv] : WriteOk(writes[inv][i])

\* C17: within a batch the records are handled one at a time in the order
\* received; for each record the metadata fetch precedes the vision call,
\* which precedes the index write; at most one write is issued per record,
\* and only after every earlier record of the batch has been handled.
C17_RecordsInOrder ==
    [][\A inv \in DOMAIN pc : RecordSteps(inv) /\ EarlierRecordsFinished(inv)']_vars

\* the second record of a batch is about to be written: its metadata and its
\* labels have been fetched, and the first record has its write
C17_Witness ==
    \E inv \in DOMAIN pc :
        /\ pc[inv] = "index"
        /\ rec[inv] = 2
        /\ head_response[inv].called
        /\ detect_response[inv].called
        /\ Len(writes[inv]) = 1

----------------------------------------------------------------------------
(* Claims about the query handler *)

Responded == q_pc = "responded"
EmptyResults == [results |-> <<>>]

\* C5: a request without query parameters, without 'q' or with an empty 'q'
\* is answered 400 with body {results: []}, and neither Lex nor the index nor
\* S3 is called.
C5_MissingQuery ==
    /\ (Responded /\ (~q_event.hasParams \/ ~q_event.hasQ \/ q_event.q = ""))
          => /\ q_response.statusCode = 400
             /\ q_response.body = EmptyResults
    /\ (~q_event.hasParams \/ ~q_event.hasQ \/ q_event.q = "")
          => calls = NoCalls

\* C5 witness: a request without 'q' among its parameters, answered 400
C5_Witness ==
    /\ Responded
    /\ q_event.hasParams
    /\ ~q_event.hasQ
    /\ q_response.statusCode = 400

\* Lex answered and no slot of its answer has a value
NoRecognizedValue ==
    /\ calls.lex = 1
    /\ calls.raised # "lex"
    /\ q_pc # "disambiguated"
    /\ \A i \in DOMAIN SlotsOf(lex_response) :
          SlotsOf(lex_response)[i].isNull \/ ~SlotsOf(lex_response)[i].hasValue

\* C6: when the Lex response has no slots, or no slot with a recognized value,
\* the response is 200 with body {results: []}, and neither the index nor S3
\* is called.
C6_NoKeywords ==
    NoRecognizedValue
        => /\ Responded
           /\ q_response.statusCode = 200
           /\ q_response.body = EmptyResults
           /\ calls.search = 0
           /\ calls.presign = 0

\* C6 witness: two slots, one null and one without a value
C6_Witness ==
    /\ Responded
    /\ lex_response.shape = "slots"
    /\ lex_response.slots = <<NullSlot, EmptySlot>>
    /\ q_response.statusCode = 200
    /\ calls.search = 0

\* C7: when link generation fails for any matched photo, or the Lex call
\* fails, the response is 500, carries the error message and has an empty
\* results list: the links generated before the failure are not returned.
C7_AllOrNothing ==
    /\ calls.raised \in {"lex", "presign"}
          => /\ Responded
             /\ q_response.statusCode = 500
             /\ DOMAIN q_response.body = {"error", "results"}
             /\ q_response.body.error =
                    (IF calls.raised = "lex" THEN "recognize_text"
                     ELSE "Error generating pre-signed URL")
             /\ q_response.body.results = <<>>
    /\ (Responded /\ Len(results) < Len(photos))
          => q_response.statusCode = 500 /\ q_response.body.results = <<>>

\* C7 witness: of three photos the second has no link: the first link is dropped
C7_Witness ==
    /\ Responded
    /\ calls.raised = "presign"
    /\ Len(photos) = 3
    /\ Len(results) = 1
    /\ q_response.statusCode = 500
    /\ q_response.body.results = <<>>

\* C8: when the index call raises, search_elasticsearch returns no photo: with
\* keywords, the response is 200 with body {results: []}, never 500, and S3
\* is not called.
C8_SearchDegrades ==
    calls.raised = "search"
        => /\ keywords # <<>>
           /\ photos = <<>>
           /\ Responded
           /\ q_response.statusCode = 200
           /\ q_response.body = EmptyResults
           /\ calls.presign = 0

\* C8 witness: the index raises on a query that a stored document matches
C8_Witness ==
    /\ Responded
    /\ calls.raised = "search"
    /\ keywords = << <<"a">> >>
    /\ \E id \in DOMAIN index : index[id] # NoDoc /\ <<"a">> \in Range(index[id].labels)
    /\ q_response.statusCode = 200

\* a query that searched the index and was answered 200, all calls succeeding
Successful ==
    /\ Responded
    /\ q_response.statusCode = 200
    /\ calls.search = 1
    /\ calls.raised = "none"

\* the response has a result for the document
HasResult(doc) ==
    \E j \in DOMAIN q_response.body.results :
        q_response.body.results[j] =
            [url |-> PresignedUrl(doc.bucket, doc.objectKey), labels |-> doc.labels]

StoredIds == {id \in DOMAIN index : index[id] # NoDoc}

\* C9 as stated: a successful query returns a result for each stored document
\* whose label set contains at least one of the keywords, and no result for a
\* document whose label set contains none of them.
C9_ExactDisjunctiveMatch ==
    Successful
        => \A id \in StoredIds :
              HasResult(index[id])
                 <=> \E i \in DOMAIN keywords : keywords[i] \in Range(index[id].labels)

\* C9 amended: a successful query returns a result for each stored document
\* whose label set contains at least one of the keywords that has a word in it,
\* regardless of its other labels, and no result for a document none of whose
\* labels is a keyword or shares a word, ignoring case, with a keyword.
C9_DisjunctiveMatch ==
    Successful
        => \A id \in StoredIds :
              /\ (\E i \in DOMAIN keywords :
                     /\ Words(keywords[i]) # {}
                     /\ keywords[i] \in Range(index[id].labels))
                    => HasResult(index[id])
              /\ (\A i \in DOMAIN keywords : \A l \in Range(index[id].labels) :
                     /\ keywords[i] # l
                     /\ Words(keywords[i]) \cap Words(l) = {})
                    => ~HasResult(index[id])

\* C9 witness: of two keywords one is a label of a document that has another
\* label too and is returned, while a document sharing no word is not returned
C9_Witness ==
    /\ Successful
    /\ keywords = << <<"B">>, <<"a">> >>
    /\ \E id \in StoredIds :
          /\ index[id].labels = << <<"a">>, <<"b">> >>
          /\ HasResult(index[id])
    /\ \E id \in StoredIds :
          /\ index[id].labels = << <<",">> >>
          /\ ~HasResult(index[id])

\* a label list without duplicates, lower-cased, each label trimmed and non-empty
Trimmed(l) == l # <<>> /\ Strip(l) = l
NoDuplicates(ls) == \A i, j \in DOMAIN ls : i # j => ls[i] # ls[j]
LowerCased(ls) == \A i \in DOMAIN ls : Lower(ls[i]) = ls[i]

\* C10: every document written to the index has labels without duplicates,
\* lower-cased, and each non-empty after trimming, whichever source they
\* came from.
C10_LabelInvariant ==
    \A k \in Keys :
        index[k] # NoDoc
            => /\ NoDuplicates(index[k].labels)
               /\ LowerCased(index[k].labels)
               /\ \A i \in DOMAIN index[k].labels : Trimmed(index[k].labels[i])

\* what does hold of every document written: no duplicates, lower-cased, and
\* the labels that are not trimmed or are empty are Rekognition names
LabelInvariantOfCustomLabels ==
    /\ \A k \in Keys :
          index[k] # NoDoc
             => /\ NoDuplicates(index[k].labels)
                /\ LowerCased(index[k].labels)
    /\ \A inv \in DOMAIN pc :
          /\ \A i \in DOMAIN custom_labels[inv] : Trimmed(custom_labels[inv][i])
          /\ (pc[inv] = "for" /\ photo_doc[inv] # NoDoc)
                => \A i \in DOMAIN photo_doc[inv].labels :
                      \/ Trimmed(photo_doc[inv].labels[i])
                      \/ photo_doc[inv].labels[i] \in Range(rekognition_labels[inv])

\* the record has an empty object key or an empty bucket
EmptyNamed(record) == record.key = "" \/ record.bucket = ""

\* C13: a record whose key or bucket is the empty string is rejected: the
\* handler never gets past the start of its pipeline for it (no metadata
\* fetch, no vision call, no index write), no document with an empty key or
\* bucket is in the index, and a batch that contains such a record is not
\* answered 200.
C13_EmptyRejected ==
    /\ \A inv \in DOMAIN pc :
          /\ pc[inv] \in {"detect_labels", "index"}
                => ~EmptyNamed(event[inv].Records[rec[inv]])
          /\ (Finished(inv) /\ response[inv] = Ok200)
                => \A i \in DOMAIN event[inv].Records :
                      ~EmptyNamed(event[inv].Records[i])
    /\ \A k \in Keys :
          index[k] # NoDoc => index[k].objectKey # "" /\ index[k].bucket # ""

\* C14: search_elasticsearch called with an empty keyword list sends no
\* request to the search backend and returns an empty sequence.
C14_EmptyKeywordsNoRequest ==
    (q_pc = "search_returned" /\ keywords = <<>>)
        => calls.search = 0 /\ photos = <<>>

\* the slots of the Lex response that have a recognized value, and whether
\* each of them carries the original text of the value
HasValue(slot_data) == ~slot_data.isNull /\ slot_data.hasValue
WithOriginalText(lex) ==
    \A i \in DOMAIN SlotsOf(lex) :
        HasValue(SlotsOf(lex)[i]) => SlotsOf(lex)[i].hasOriginal
OriginalValues(lex) ==
    LET valued == SelectSeq(SlotsOf(lex), HasValue)
    IN  [i \in DOMAIN valued |-> valued[i].originalValue]

\* the handler is past the extraction of the keywords
PastExtraction == lex_response # NoLexResponse /\ q_pc # "disambiguated"

StageOf(p) ==
    CASE p = "idle" -> 0
      [] p = "received" -> 1
      [] p = "validated" -> 2
      [] p = "disambiguated" -> 3
      [] p = "keywords" -> 4
      [] p = "searched" -> 5
      [] p = "responded" -> 6
      [] OTHER -> 7

\* a step starts a request, stays in the stage (one more link), moves to the
\* next stage, or responds
InStageOrder ==
    \/ q_pc \in {"idle", "responded"} /\ q_pc' = "received"
    \/ q_pc \notin {"idle", "responded"}
          /\ \/ q_pc' = q_pc /\ q_pc = "searched"
             \/ StageOf(q_pc') = StageOf(q_pc) + 1
             \/ q_pc' = "responded"

HasQueryText == q_event.hasParams /\ q_event.hasQ /\ q_event.q # ""

\* each collaborator is called at most once (S3 once per hit) and only after
\* the stage before it gave something to work on
CallsInOrder ==
    /\ calls.lex <= 1
    /\ calls.lex = 1 => HasQueryText /\ StageOf(q_pc) >= 3
    /\ calls.search <= 1
    /\ calls.search = 1 => calls.lex = 1 /\ keywords # <<>> /\ StageOf(q_pc) >= 5
    /\ calls.presign <= Len(photos)
    /\ calls.presign >= 1 => calls.search = 1 /\ photos # <<>>
    /\ StageOf(q_pc) <= 6

\* the three early exits answer with an empty results list and no error field
EarlyExits ==
    /\ (Responded /\ ~HasQueryText)
          => q_response = ResponseHandler(400, EmptyResults)
    /\ (Responded /\ calls.lex = 1 /\ calls.raised = "none"
           /\ WithOriginalText(lex_response) /\ OriginalValues(lex_response) = <<>>)
          => q_response = ResponseHandler(200, EmptyResults) /\ calls.search = 0
    /\ (Responded /\ calls.search = 1 /\ photos = <<>>)
          => q_response = ResponseHandler(200, EmptyResults) /\ calls.presign = 0

\* C16: one request moves through Received, Validated, Disambiguated,
\* Searched, LinksGenerated, Responded in that order and never back; Lex is
\* called at most once and only after the query text was found non-empty, the
\* index is searched at most once and only after a keyword was extracted,
\* links are issued only after the search returned a hit, and each of the
\* three early exits answers with empty results and no error field.
C16_StagesInOrder ==
    [][InStageOrder /\ CallsInOrder' /\ EarlyExits']_vars

\* a request that went through every stage: two hits, a link for each, both
\* in the response
C16_Witness ==
    /\ Responded
    /\ calls.lex = 1
    /\ calls.search = 1
    /\ calls.presign = 2
    /\ Len(q_response.body.results) = 2

\* C18: on a successful query with at least one hit, the results list has
\* exactly one entry per hit, in the order of the hits, and entry i pairs the
\* link issued for the bucket and objectKey of hit i with the labels of hit i.
C18_OneEntryPerHit ==
    (Successful /\ photos # <<>>)
        => /\ Len(q_response.body.results) = Len(photos)
           /\ \A i \in DOMAIN photos :
                 /\ q_response.body.results[i].url =
                        [Bucket |-> photos[i].bucket, Key |-> photos[i].objectKey,
                         ExpiresIn |-> ExpiresIn]
                 /\ q_response.body.results[i].labels = photos[i].labels
                 /\ index[photos[i].objectKey] = photos[i]

\* three hits with different labels, answered with three entries
C18_Witness ==
    /\ Successful
    /\ Len(photos) = 3
    /\ photos[1].labels # photos[2].labels
    /\ photos[2].labels # photos[3].labels
    /\ Len(q_response.body.results) = 3

\* a step of the handler is possible
CanStep ==
    ENABLED (Validate \/ RecognizeText \/ Keywords \/ Search \/ PreSign \/ RespondResults)

\* C19: the query handler always returns and never raises, whatever the
\* request and whichever collaborator fails; the status of its response is
\* 200, 400 or 500; the body always has a results list, which is non-empty
\* only with status 200; and the body has an error field exactly when the
\* status is 500.
C19_ResponseShape ==
    /\ q_pc # "raised"
    /\ q_pc \notin {"idle", "responded"} => CanStep
    /\ Responded
          => /\ q_response.statusCode \in {200, 400, 500}
             /\ "results" \in DOMAIN q_response.body
             /\ q_response.body.results # <<>> => q_response.statusCode = 200
             /\ "error" \in DOMAIN q_response.body <=> q_response.statusCode = 500

\* a 500 response that is not due to a collaborator: the KeyError of a slot
\* value without originalValue, caught like every other exception
C19_Witness ==
    /\ Responded
    /\ calls.lex = 1
    /\ calls.raised = "none"
    /\ q_response.statusCode = 500
    /\ DOMAIN q_response.body = {"error", "results"}
    /\ q_response.body.results = <<>>

----------------------------------------------------------------------------
(* Claims about the two handlers together *)

\* the ingestion handler has returned 200 for a batch that contains the key
Acknowledged(k) ==
    \E inv \in DOMAIN pc :
        /\ pc[inv] = "done"
        /\ response[inv] = Ok200
        /\ \E i \in DOMAIN event[inv].Records : event[inv].Records[i].key = k

\* a step in which elastic_client.search is called and answers
SearchAnswers ==
    /\ q_pc = "keywords"
    /\ calls'.search = calls.search + 1
    /\ calls'.raised = "none"

\* a step in which the handler returns the links of the hits
ResultsReturned ==
    /\ q_pc = "searched"
    /\ q_pc' = "responded"
    /\ q_response'.statusCode = 200

----------------------------------------------------------------------------
(* Claims about concurrent ingestions *)

\* the step is an index write of the invocation that is applied
AppliesWrite(inv) ==
    /\ pc[inv] = "index"
    /\ Len(writes'[inv]) = Len(writes[inv]) + 1
    /\ WriteOk(writes'[inv][Len(writes'[inv])])

\* the document is complete and is the one the invocation built for its
\* current record from its own labels
OwnDocument(inv, doc) ==
    /\ DOMAIN doc = {"objectKey", "bucket", "createdTimestamp", "labels"}
    /\ doc.objectKey = event[inv].Records[rec[inv]].key
    /\ doc.bucket = event[inv].Records[rec[inv]].bucket
    /\ doc.createdTimestamp \in Times
    /\ Range(doc.labels) = Range(rekognition_labels[inv]) \cup Range(custom_labels[inv])

\* C12: under every interleaving of concurrent ingestions, the stored document
\* of a key changes only in a step that is the applied index write of one
\* invocation for that key; it becomes the complete document of that
\* invocation (its key, its bucket, a timestamp, its labels and nothing of the
\* document stored before or of the other invocation), and the documents of
\* the other keys stay as they are.
C12_LastWriteWins ==
    [][\A k \in Keys :
          index'[k] # index[k]
             => \E inv \in DOMAIN pc :
                   /\ AppliesWrite(inv)
                   /\ event[inv].Records[rec[inv]].key = k
                   /\ OwnDocument(inv, index'[k])
                   /\ \A other \in Keys \ {k} : index'[other] = index[other]]_vars

\* both invocations have written the same key, with different buckets and
\* different labels, and the stored document is the whole document of one
C12_Witness ==
    \E k \in Keys :
        /\ \A inv \in Invocations :
              /\ pc[inv] = "for"
              /\ rec[inv] = 2
              /\ event[inv].Records[1].key = k
              /\ Len(writes[inv]) = 1
              /\ WriteOk(writes[inv][1])
        /\ photo_doc[1].bucket # photo_doc[2].bucket
        /\ Range(photo_doc[1].labels) # Range(photo_doc[2].labels)
        /\ index[k] = photo_doc[1]
        /\ writes[1] = <<"updated">>

====
